---- MODULE Spec2Model ----
(***************************************************************************)
(* HPACK header-block encoder of src/src/hpack/encoder.rs: the integer and *)
(* string-literal codecs, the per-field choice among the three wire        *)
(* representations, and the encoder's dynamic table.  Byte strings are     *)
(* sequences of octets (0..255); a header field is <<name, value>>.        *)
(* Spec is the encoder with its calls; CodecSpec and FairCodecSpec run the *)
(* integer and string codecs on their own, LookupSpec a single lookup.     *)
(* The header table (find_header, add_header, the static table) belongs to *)
(* the parent module hpack (use super::HeaderTable); it is modelled from   *)
(* spec.md sections 3 and 4.3.                                             *)
(***************************************************************************)
EXTENDS Integers, Sequences, FiniteSets, TLC

VARIABLES
  dyn,      \* Encoder.header_table's dynamic part, newest entry first
  pre,      \* the dynamic table as it was when the current (or last) call began
  before,   \* the dynamic table as it was when the last field began
  mark,     \* how many octets of out were written before the last field
  pc,       \* "idle", or "loop": inside the for loop of encode_into; for a
            \* codec run on its own "begin", "while" (at the head of the
            \* loop of encode_integer_into) and "done"
  op,       \* the current (or last) call: "encode", "encode_into",
            \* "encode_header_into"; "new", "none" when none was made
  args,     \* the header fields the call has taken so far (positions in
            \* Inputs); for a codec or a lookup run on its own, its arguments
  sink,     \* the writer in use: [limited, room], room octets left if limited
  out,      \* the octets the sink has accepted during the call
  res,      \* the call's io::Result once it has returned: "Ok" or "Err"
  log,      \* what the call did, in order: <<event, position of the field>>
  peer,     \* dynamic table of the decoder that reads the encoder's octets
  decoded,  \* the header fields that decoder has read from the call's octets
  synced,   \* no sink has failed so far: the decoder has seen every octet
  readable, \* the decoder could read every octet it has seen
  local     \* locals of encode_integer_into when it is run step by step:
            \* [value, mask, leading_bits]

vars == <<dyn, pre, before, mark, pc, op, args, sink, out, res, log, peer, decoded, synced, readable, local>>

-----------------------------------------------------------------------------
(* Bounds of the model. *)

\* Longest batch handed to encode / encode_into.
MaxBatch == 2

\* Sinks that fail do so after accepting 0..MaxRoom octets.
MaxRoom == 4

\* Length of the long value: its entry fits the table beside the entry of
\* cost 32 (empty name and value), but not beside an entry of x (cost 34).
LongLen == 4030

\* Length of the oversized value: its entry alone exceeds the capacity.
OverLen == 4064

\* Length of the wide value: above 126, so its length takes several octets.
WideLen == 130

-----------------------------------------------------------------------------
(* The header table: spec.md 3 and 4.3. *)

\* The 61 predefined header fields (RFC 7541, Appendix A), as octets.
STATIC_TABLE ==
  <<
    <<<<58, 97, 117, 116, 104, 111, 114, 105, 116, 121>>, <<>>>>,  \* 1: :authority
    <<<<58, 109, 101, 116, 104, 111, 100>>, <<71, 69, 84>>>>,  \* 2: :method: GET
    <<<<58, 109, 101, 116, 104, 111, 100>>, <<80, 79, 83, 84>>>>,  \* 3: :method: POST
    <<<<58, 112, 97, 116, 104>>, <<47>>>>,  \* 4: :path: /
    <<<<58, 112, 97, 116, 104>>, <<47, 105, 110, 100, 101, 120, 46, 104, 116, 109, 108>>>>,  \* 5: :path: /index.html
    <<<<58, 115, 99, 104, 101, 109, 101>>, <<104, 116, 116, 112>>>>,  \* 6: :scheme: http
    <<<<58, 115, 99, 104, 101, 109, 101>>, <<104, 116, 116, 112, 115>>>>,  \* 7: :scheme: https
    <<<<58, 115, 116, 97, 116, 117, 115>>, <<50, 48, 48>>>>,  \* 8: :status: 200
    <<<<58, 115, 116, 97, 116, 117, 115>>, <<50, 48, 52>>>>,  \* 9: :status: 204
    <<<<58, 115, 116, 97, 116, 117, 115>>, <<50, 48, 54>>>>,  \* 10: :status: 206
    <<<<58, 115, 116, 97, 116, 117, 115>>, <<51, 48, 52>>>>,  \* 11: :status: 304
    <<<<58, 115, 116, 97, 116, 117, 115>>, <<52, 48, 48>>>>,  \* 12: :status: 400
    <<<<58, 115, 116, 97, 116, 117, 115>>, <<52, 48, 52>>>>,  \* 13: :status: 404
    <<<<58, 115, 116, 97, 116, 117, 115>>, <<53, 48, 48>>>>,  \* 14: :status: 500
    <<<<97, 99, 99, 101, 112, 116, 45, 99, 104, 97, 114, 115, 101, 116>>, <<>>>>,  \* 15: accept-charset
    <<<<97, 99, 99, 101, 112, 116, 45, 101, 110, 99, 111, 100, 105, 110, 103>>, <<103, 122, 105, 112, 44, 32, 100, 101, 102, 108, 97, 116, 101>>>>,  \* 16: accept-encoding: gzip, deflate
    <<<<97, 99, 99, 101, 112, 116, 45, 108, 97, 110, 103, 117, 97, 103, 101>>, <<>>>>,  \* 17: accept-language
    <<<<97, 99, 99, 101, 112, 116, 45, 114, 97, 110, 103, 101, 115>>, <<>>>>,  \* 18: accept-ranges
    <<<<97, 99, 99, 101, 112, 116>>, <<>>>>,  \* 19: accept
    <<<<97, 99, 99, 101, 115, 115, 45, 99, 111, 110, 116, 114, 111, 108, 45, 97, 108, 108, 111, 119, 45, 111, 114, 105, 103, 105, 110>>, <<>>>>,  \* 20: access-control-allow-origin
    <<<<97, 103, 101>>, <<>>>>,  \* 21: age
    <<<<97, 108, 108, 111, 119>>, <<>>>>,  \* 22: allow
    <<<<97, 117, 116, 104, 111, 114, 105, 122, 97, 116, 105, 111, 110>>, <<>>>>,  \* 23: authorization
    <<<<99, 97, 99, 104, 101, 45, 99, 111, 110, 116, 114, 111, 108>>, <<>>>>,  \* 24: cache-control
    <<<<99, 111, 110, 116, 101, 110, 116, 45, 100, 105, 115, 112, 111, 115, 105, 116, 105, 111, 110>>, <<>>>>,  \* 25: content-disposition
    <<<<99, 111, 110, 116, 101, 110, 116, 45, 101, 110, 99, 111, 100, 105, 110, 103>>, <<>>>>,  \* 26: content-encoding
    <<<<99, 111, 110, 116, 101, 110, 116, 45, 108, 97, 110, 103, 117, 97, 103, 101>>, <<>>>>,  \* 27: content-language
    <<<<99, 111, 110, 116, 101, 110, 116, 45, 108, 101, 110, 103, 116, 104>>, <<>>>>,  \* 28: content-length
    <<<<99, 111, 110, 116, 101, 110, 116, 45, 108, 111, 99, 97, 116, 105, 111, 110>>, <<>>>>,  \* 29: content-location
    <<<<99, 111, 110, 116, 101, 110, 116, 45, 114, 97, 110, 103, 101>>, <<>>>>,  \* 30: content-range
    <<<<99, 111, 110, 116, 101, 110, 116, 45, 116, 121, 112, 101>>, <<>>>>,  \* 31: content-type
    <<<<99, 111, 111, 107, 105, 101>>, <<>>>>,  \* 32: cookie
    <<<<100, 97, 116, 101>>, <<>>>>,  \* 33: date
    <<<<101, 116, 97, 103>>, <<>>>>,  \* 34: etag
    <<<<101, 120, 112, 101, 99, 116>>, <<>>>>,  \* 35: expect
    <<<<101, 120, 112, 105, 114, 101, 115>>, <<>>>>,  \* 36: expires
    <<<<102, 114, 111, 109>>, <<>>>>,  \* 37: from
    <<<<104, 111, 115, 116>>, <<>>>>,  \* 38: host
    <<<<105, 102, 45, 109, 97, 116, 99, 104>>, <<>>>>,  \* 39: if-match
    <<<<105, 102, 45, 109, 111, 100, 105, 102, 105, 101, 100, 45, 115, 105, 110, 99, 101>>, <<>>>>,  \* 40: if-modified-since
    <<<<105, 102, 45, 110, 111, 110, 101, 45, 109, 97, 116, 99, 104>>, <<>>>>,  \* 41: if-none-match
    <<<<105, 102, 45, 114, 97, 110, 103, 101>>, <<>>>>,  \* 42: if-range
    <<<<105, 102, 45, 117, 110, 109, 111, 100, 105, 102, 105, 101, 100, 45, 115, 105, 110, 99, 101>>, <<>>>>,  \* 43: if-unmodified-since
    <<<<108, 97, 115, 116, 45, 109, 111, 100, 105, 102, 105, 101, 100>>, <<>>>>,  \* 44: last-modified
    <<<<108, 105, 110, 107>>, <<>>>>,  \* 45: link
    <<<<108, 111, 99, 97, 116, 105, 111, 110>>, <<>>>>,  \* 46: location
    <<<<109, 97, 120, 45, 102, 111, 114, 119, 97, 114, 100, 115>>, <<>>>>,  \* 47: max-forwards
    <<<<112, 114, 111, 120, 121, 45, 97, 117, 116, 104, 101, 110, 116, 105, 99, 97, 116, 101>>, <<>>>>,  \* 48: proxy-authenticate
    <<<<112, 114, 111, 120, 121, 45, 97, 117, 116, 104, 111, 114, 105, 122, 97, 116, 105, 111, 110>>, <<>>>>,  \* 49: proxy-authorization
    <<<<114, 97, 110, 103, 101>>, <<>>>>,  \* 50: range
    <<<<114, 101, 102, 101, 114, 101, 114>>, <<>>>>,  \* 51: referer
    <<<<114, 101, 102, 114, 101, 115, 104>>, <<>>>>,  \* 52: refresh
    <<<<114, 101, 116, 114, 121, 45, 97, 102, 116, 101, 114>>, <<>>>>,  \* 53: retry-after
    <<<<115, 101, 114, 118, 101, 114>>, <<>>>>,  \* 54: server
    <<<<115, 101, 116, 45, 99, 111, 111, 107, 105, 101>>, <<>>>>,  \* 55: set-cookie
    <<<<115, 116, 114, 105, 99, 116, 45, 116, 114, 97, 110, 115, 112, 111, 114, 116, 45, 115, 101, 99, 117, 114, 105, 116, 121>>, <<>>>>,  \* 56: strict-transport-security
    <<<<116, 114, 97, 110, 115, 102, 101, 114, 45, 101, 110, 99, 111, 100, 105, 110, 103>>, <<>>>>,  \* 57: transfer-encoding
    <<<<117, 115, 101, 114, 45, 97, 103, 101, 110, 116>>, <<>>>>,  \* 58: user-agent
    <<<<118, 97, 114, 121>>, <<>>>>,  \* 59: vary
    <<<<118, 105, 97>>, <<>>>>,  \* 60: via
    <<<<119, 119, 119, 45, 97, 117, 116, 104, 101, 110, 116, 105, 99, 97, 116, 101>>, <<>>>>  \* 61: www-authenticate
  >>
-----------------------------------------------------------------------------

\* Default capacity of the dynamic table, in octets: the initial
\* SETTINGS_HEADER_TABLE_SIZE of HTTP/2, which Encoder::new() never changes.
DefaultCapacity == 4096

\* Cost of one dynamic-table entry.
EntrySize(h) == Len(h[1]) + Len(h[2]) + 32

RECURSIVE TableSize(_)
TableSize(t) == IF t = <<>> THEN 0 ELSE EntrySize(Head(t)) + TableSize(Tail(t))

\* The combined index space: 1..61 static, 62.. dynamic, newest first.
CombinedTable(d) == STATIC_TABLE \o d

Min(S) == CHOOSE x \in S : \A y \in S : x <= y

\* Faulty variant: the first entry with the name decides.
FoundAmong_by_name(exact, named) ==
  IF named # {}
    THEN [some |-> TRUE, index |-> Min(named), exact |-> Min(named) \in exact]
    ELSE [some |-> FALSE, index |-> 0, exact |-> FALSE]

\* The answer of find_header, given the indices that match in full and
\* those that match by name: the lowest match in full, else the lowest by name.
FoundAmong(exact, named) ==
  IF exact # {} THEN [some |-> TRUE, index |-> Min(exact), exact |-> TRUE]
  ELSE IF named # {} THEN [some |-> TRUE, index |-> Min(named), exact |-> FALSE]
  ELSE [some |-> FALSE, index |-> 0, exact |-> FALSE]

FindIn(t, header) ==
  FoundAmong({i \in 1..Len(t) : t[i] = header},
             {i \in 1..Len(t) : t[i][1] = header[1]})

\* find_header: None, Some((index, false)) or Some((index, true)).
find_header(d, header) == FindIn(CombinedTable(d), header)

\* Faulty variant: the entries are evicted from the newest end.
RECURSIVE consolidate_table_newest(_)
consolidate_table_newest(t) ==
  IF TableSize(t) > DefaultCapacity
    THEN consolidate_table_newest(Tail(t))
    ELSE t

\* Evict from the oldest end until the entries fit the capacity.
RECURSIVE consolidate_table(_)
consolidate_table(t) ==
  IF TableSize(t) > DefaultCapacity
    THEN consolidate_table(SubSeq(t, 1, Len(t) - 1))
    ELSE t

\* add_header: insert at the newest end, then evict.
add_header(d, name, value) == consolidate_table(<<<<name, value>>>> \o d)

-----------------------------------------------------------------------------
(* Octet arithmetic. *)

RECURSIVE BitAnd(_, _)
BitAnd(a, b) ==
  IF a = 0 \/ b = 0 THEN 0
  ELSE (a % 2) * (b % 2) + 2 * BitAnd(a \div 2, b \div 2)

\* !x on a u8.
BitNot(a) == 255 - a

\* a | b on u8.
BitOr(a, b) == a + b - BitAnd(a, b)

-----------------------------------------------------------------------------
(* The sink.  A call threads one record through its writes:                *)
(*   dyn  the encoder's dynamic table                                      *)
(*   out  the octets the sink has accepted                                 *)
(*   limited, room                                                         *)
(*        a limited sink fails once it has accepted room more octets       *)
(*   ok   FALSE once a write has returned Err                              *)
(*   log  the lookups, writes and insertions made so far                   *)
(*   k    position in the batch of the field being encoded                 *)

Writer(d, limited, room) ==
  [dyn |-> d, out |-> <<>>, limited |-> limited, room |-> room,
   ok |-> TRUE, log |-> <<>>, k |-> 1]

Logged(w, event) == Append(w.log, <<event, w.k>>)

\* writer.write_all(buf): Ok when the sink takes all of buf (always so for an
\* empty buf); otherwise the sink keeps the part that fits and returns Err.
write_all(w, buf) ==
  IF ~w.limited \/ Len(buf) <= w.room
    THEN [w EXCEPT !.out  = w.out \o buf,
                   !.room = IF w.limited THEN w.room - Len(buf) ELSE w.room,
                   !.log  = Logged(w, "write")]
    ELSE [w EXCEPT !.out  = w.out \o SubSeq(buf, 1, w.room),
                   !.room = 0,
                   !.ok   = FALSE,
                   !.log  = Logged(w, "fail")]

-----------------------------------------------------------------------------
(* Integer and string-literal codecs.  Every write is under try!: where a  *)
(* step follows another, it gets the writer record the step before left    *)
(* and returns it as it is if that step failed.                            *)

\* The while loop of encode_integer_into and the write that follows it; w is
\* what the write before left.
RECURSIVE encode_integer_tail(_, _)
encode_integer_tail(value, w) ==
  IF ~w.ok THEN w
  ELSE IF value >= 128
    THEN encode_integer_tail(value \div 128, write_all(w, <<(value % 128) + 128>>))
  ELSE write_all(w, <<value>>)

\* The mask of the prefix, and leading_bits cleared of it.
PrefixMask(prefix_size) == IF prefix_size >= 8 THEN 255 ELSE (2 ^ prefix_size) - 1

ClearedBits(leading_bits, mask) == BitAnd(leading_bits, BitNot(mask))

encode_integer_with(value, mask, lead, w) ==
  IF value < mask
    THEN write_all(w, <<BitOr(lead, value)>>)
    ELSE encode_integer_tail(value - mask, write_all(w, <<BitOr(lead, mask)>>))

encode_integer_into(value, prefix_size, leading_bits, w) ==
  encode_integer_with(value, PrefixMask(prefix_size),
                      ClearedBits(leading_bits, PrefixMask(prefix_size)), w)

\* try!(buf.write_all(octet_str)) after the length; w is what writing the
\* length left.
write_octets(octet_str, w) == IF ~w.ok THEN w ELSE write_all(w, octet_str)

\* Faulty variant: the result of writing the length is not looked at.
encode_string_literal_unchecked(octet_str, w) ==
  IF ~w.ok THEN w
  ELSE write_all(encode_integer_into(Len(octet_str), 7, 0, w), octet_str)

\* Faulty variant: the length is written with a prefix of 8 bits.
encode_string_literal_wide(octet_str, w) ==
  IF ~w.ok THEN w
  ELSE write_octets(octet_str, encode_integer_into(Len(octet_str), 8, 0, w))

\* w is what the step before left.
encode_string_literal(octet_str, w) ==
  IF ~w.ok THEN w
  ELSE write_octets(octet_str, encode_integer_into(Len(octet_str), 7, 0, w))

-----------------------------------------------------------------------------
(* The three representations. *)

encode_literal(header, should_index, w) ==
  encode_string_literal(header[2],
    encode_string_literal(header[1],
      write_all(w, <<IF should_index THEN 64 ELSE 0>>)))

encode_indexed_name(index, value, should_index, w) ==
  encode_string_literal(value,
    encode_integer_into(index,
                        IF should_index THEN 6 ELSE 4,
                        IF should_index THEN 64 ELSE 0, w))

\* Faulty variant: the flag bit of the indexed representation is left out.
encode_indexed_unflagged(index, w) == encode_integer_into(index, 7, 0, w)

encode_indexed(index, w) == encode_integer_into(index, 7, 128, w)

-----------------------------------------------------------------------------
(* The encoder's operations. *)

\* self.header_table.add_header(..) after try!(self.encode_literal(..)); w is
\* what encode_literal left.
header_added(header, w) ==
  IF ~w.ok THEN w
  ELSE [w EXCEPT !.dyn = add_header(w.dyn, header[1], header[2]),
                 !.log = Logged(w, "add")]

\* Faulty variant: the new-name literal is sent without the
\* incremental-indexing flag, yet the field is still added to the table.
encode_header_as_unflagged(found, header, w) ==
  IF ~found.some
    THEN header_added(header, encode_literal(header, FALSE, w))
  ELSE IF ~found.exact
    THEN encode_indexed_name(found.index, header[2], FALSE, w)
  ELSE encode_indexed(found.index, w)

\* Faulty variant: add_header is forgotten.
encode_header_as_not_added(found, header, w) ==
  IF ~found.some
    THEN encode_literal(header, TRUE, w)
  ELSE IF ~found.exact
    THEN encode_indexed_name(found.index, header[2], FALSE, w)
  ELSE encode_indexed(found.index, w)

\* Faulty variant: the table is updated before the literal is written.
encode_header_as_added_first(found, header, w) ==
  IF ~found.some
    THEN encode_literal(header, TRUE, header_added(header, w))
  ELSE IF ~found.exact
    THEN encode_indexed_name(found.index, header[2], FALSE, w)
  ELSE encode_indexed(found.index, w)

\* Faulty variant: a name-only match is added to the table as well.
encode_header_as_name_added(found, header, w) ==
  IF ~found.some
    THEN header_added(header, encode_literal(header, TRUE, w))
  ELSE IF ~found.exact
    THEN header_added(header, encode_indexed_name(found.index, header[2], FALSE, w))
  ELSE encode_indexed(found.index, w)

\* Faulty variant: an entry that cannot fit the table is not handed to
\* add_header.
encode_header_as_large_skipped(found, header, w) ==
  IF ~found.some
    THEN IF EntrySize(header) > DefaultCapacity
           THEN encode_literal(header, TRUE, w)
           ELSE header_added(header, encode_literal(header, TRUE, w))
  ELSE IF ~found.exact
    THEN encode_indexed_name(found.index, header[2], FALSE, w)
  ELSE encode_indexed(found.index, w)

\* The entry put in front of the table, nothing evicted.
header_pushed(header, w) ==
  IF ~w.ok THEN w
  ELSE [w EXCEPT !.dyn = <<header>> \o w.dyn, !.log = Logged(w, "add")]

\* Faulty variant: the new entry is put in front of the table without
\* add_header, so that nothing is evicted.
encode_header_as_pushed(found, header, w) ==
  IF ~found.some
    THEN header_pushed(header, encode_literal(header, TRUE, w))
  ELSE IF ~found.exact
    THEN encode_indexed_name(found.index, header[2], FALSE, w)
  ELSE encode_indexed(found.index, w)

\* The arm of the match that the answer of find_header selects.
encode_header_as(found, header, w) ==
  IF ~found.some
    THEN header_added(header, encode_literal(header, TRUE, w))
  ELSE IF ~found.exact
    THEN encode_indexed_name(found.index, header[2], FALSE, w)
  ELSE encode_indexed(found.index, w)

encode_header_into(header, w) ==
  encode_header_as(find_header(w.dyn, header), header,
                   [w EXCEPT !.log = Logged(w, "find")])

-----------------------------------------------------------------------------
(* The decoder at the other end of the sink (RFC 7541 sections 5 and 6;    *)
(* spec.md 4.1 and 6).  It is total: octets that are no header block give  *)
(* ok = FALSE.                                                             *)

RECURSIVE DecodeIntTail(_, _, _, _)
DecodeIntTail(bytes, pos, acc, mult) ==
  IF pos > Len(bytes) THEN [ok |-> FALSE, value |-> 0, next |-> pos]
  ELSE IF bytes[pos] < 128
    THEN [ok |-> TRUE, value |-> acc + bytes[pos] * mult, next |-> pos + 1]
  ELSE DecodeIntTail(bytes, pos + 1, acc + (bytes[pos] % 128) * mult, mult * 128)

DecodeIntWith(bytes, pos, max, p) ==
  IF p < max THEN [ok |-> TRUE, value |-> p, next |-> pos + 1]
  ELSE DecodeIntTail(bytes, pos + 1, max, 1)

DecodeInt(bytes, pos, prefix) ==
  IF pos > Len(bytes) THEN [ok |-> FALSE, value |-> 0, next |-> pos]
  ELSE DecodeIntWith(bytes, pos, (2 ^ prefix) - 1, bytes[pos] % (2 ^ prefix))

NoString == [ok |-> FALSE, str |-> <<>>, next |-> 0]

\* The octets of a string whose length n has been read.
DecodeStringOf(bytes, n) ==
  IF ~n.ok \/ n.next + n.value - 1 > Len(bytes) THEN NoString
  ELSE [ok |-> TRUE, str |-> SubSeq(bytes, n.next, n.next + n.value - 1),
        next |-> n.next + n.value]

\* A string literal; one flagged as Huffman-coded is not read.
DecodeString(bytes, pos) ==
  IF pos > Len(bytes) \/ bytes[pos] >= 128 THEN NoString
  ELSE DecodeStringOf(bytes, DecodeInt(bytes, pos, 7))

\* RFC 7541 4.4: evict until the new entry fits, then insert it if it does.
RECURSIVE DecoderEvict(_, _)
DecoderEvict(t, need) ==
  IF t # <<>> /\ TableSize(t) + need > DefaultCapacity
    THEN DecoderEvict(SubSeq(t, 1, Len(t) - 1), need)
    ELSE t

DecoderInsert(t, h) ==
  IF EntrySize(h) > DefaultCapacity THEN <<>>
  ELSE <<h>> \o DecoderEvict(t, EntrySize(h))

BadField == [ok |-> FALSE, field |-> <<>>, table |-> <<>>, next |-> 0]

\* A literal whose name and value have been read.
DecodeLiteralOf(t, name, val, indexing) ==
  IF ~val.ok THEN BadField
  ELSE [ok |-> TRUE, field |-> <<name.str, val.str>>,
        table |-> IF indexing THEN DecoderInsert(t, <<name.str, val.str>>) ELSE t,
        next |-> val.next]

DecodeLiteralNamed(bytes, t, name, indexing) ==
  IF ~name.ok THEN BadField
  ELSE DecodeLiteralOf(t, name, DecodeString(bytes, name.next), indexing)

\* A literal whose name index i has been read: 0 announces a literal name.
DecodeLiteralAt(bytes, t, all, i, indexing) ==
  IF ~i.ok \/ i.value > Len(all) THEN BadField
  ELSE DecodeLiteralNamed(bytes, t,
         IF i.value = 0 THEN DecodeString(bytes, i.next)
         ELSE [ok |-> TRUE, str |-> all[i.value][1], next |-> i.next],
         indexing)

DecodeIndexedAt(t, all, i) ==
  IF ~i.ok \/ i.value = 0 \/ i.value > Len(all) THEN BadField
  ELSE [ok |-> TRUE, field |-> all[i.value], table |-> t, next |-> i.next]

\* One representation, told by its first octet; a table size update (001x
\* xxxx) is not read.
DecodeField(bytes, pos, t) ==
  IF bytes[pos] >= 128
    THEN DecodeIndexedAt(t, CombinedTable(t), DecodeInt(bytes, pos, 7))
  ELSE IF bytes[pos] >= 64
    THEN DecodeLiteralAt(bytes, t, CombinedTable(t), DecodeInt(bytes, pos, 6), TRUE)
  ELSE IF bytes[pos] >= 32 THEN BadField
  ELSE DecodeLiteralAt(bytes, t, CombinedTable(t), DecodeInt(bytes, pos, 4), FALSE)

\* Decode a whole block from pos on: the fields read and the table left.
RECURSIVE DecodeBlock(_, _, _, _)
DecodeNext(bytes, f, t, fields) ==
  IF ~f.ok THEN [ok |-> FALSE, fields |-> fields, table |-> t]
  ELSE DecodeBlock(bytes, f.next, f.table, Append(fields, f.field))

DecodeBlock(bytes, pos, t, fields) ==
  IF pos > Len(bytes) THEN [ok |-> TRUE, fields |-> fields, table |-> t]
  ELSE DecodeNext(bytes, DecodeField(bytes, pos, t), t, fields)

Decode(bytes, t) == DecodeBlock(bytes, 1, t, <<>>)

-----------------------------------------------------------------------------
(* The header fields the model encodes. *)

Octets(n, c) == [i \in 1..n |-> c]

Inputs ==
  << <<STATIC_TABLE[2][1], <<71, 69, 84>>>>,   \* 1  :method: GET, static entry 2
     <<STATIC_TABLE[2][1], Octets(WideLen, 97)>>, \* 2  :method with a wide value
     <<<<120>>, <<97>>>>,                      \* 3  x: a
     <<<<120>>, <<98>>>>,                      \* 4  x: b
     <<<<>>, <<>>>>,                           \* 5  empty name, empty value
     <<<<121>>, Octets(LongLen, 97)>>,         \* 6  y: a long value
     <<<<120>>, Octets(OverLen, 97)>>          \* 7  x: a value above the capacity
  >>

FieldIds == 1..Len(Inputs)

Rooms == 0..MaxRoom

Sinks == {[limited |-> FALSE, room |-> 0]} \cup {[limited |-> TRUE, room |-> r] : r \in Rooms}

-----------------------------------------------------------------------------
(* The state machine: one encoder, the calls made on it one at a time      *)
(* (each takes &mut self), and the decoder that receives what the sinks    *)
(* accepted.  encode and encode_into pull their header fields from the     *)
(* caller's iterator one by one.                                           *)

\* No encode_integer_into is being run step by step.
NoLocals == [value |-> 0, mask |-> 0, leading_bits |-> 0]

\* Encoder::new(): the static table and an empty dynamic table.
Init ==
  /\ dyn = <<>>
  /\ pre = <<>>
  /\ before = <<>>
  /\ mark = 0
  /\ pc = "idle"
  /\ op = "new"
  /\ args = <<>>
  /\ sink = [limited |-> FALSE, room |-> 0]
  /\ out = <<>>
  /\ res = "Ok"
  /\ log = <<>>
  /\ peer = <<>>
  /\ decoded = <<>>
  /\ synced = TRUE
  /\ readable = TRUE
  /\ local = NoLocals

\* The decoder has read d from the octets one field's encoding added.
Received(d, read) ==
  /\ readable' = (readable /\ d.ok)
  /\ peer' = d.table
  /\ UNCHANGED synced
  /\ decoded' = read \o d.fields

\* A sink has failed, now or earlier: the pairing is cancelled.
Cancelled ==
  /\ synced' = FALSE
  /\ peer' = <<>>
  /\ UNCHANGED readable
  /\ decoded' = <<>>

\* encode_header_into has run on Inputs[id] and left the writer record w,
\* in a call that had taken the fields `taken`, written `written` and let the
\* decoder read `read`.
Encoded(id, w, taken, written, read) ==
  /\ dyn' = w.dyn
  /\ before' = dyn
  /\ mark' = Len(written)
  /\ args' = Append(taken, id)
  /\ sink' = [limited |-> w.limited, room |-> w.room]
  /\ out' = w.out
  /\ log' = w.log
  /\ UNCHANGED local
  /\ IF synced /\ w.ok
       THEN Received(Decode(SubSeq(w.out, Len(written) + 1, Len(w.out)), peer), read)
       ELSE Cancelled

\* The caller takes a new writer: a Vec, a buffer of `room` octets, a
\* stream that fails after `room` octets.  No call has been made with it.
NewWriter(s) ==
  /\ pc = "idle"
  /\ sink' = s
  /\ op' = "none"
  /\ pre' = dyn
  /\ before' = dyn
  /\ mark' = 0
  /\ args' = <<>>
  /\ out' = <<>>
  /\ res' = "Ok"
  /\ log' = <<>>
  /\ decoded' = <<>>
  /\ UNCHANGED <<pc, dyn, peer, synced, readable, local>>

\* A batch call begins on the writer s: nothing taken or written yet.
Call(name, s) ==
  /\ pc = "idle"
  /\ pc' = "loop"
  /\ op' = name
  /\ pre' = dyn
  /\ before' = dyn
  /\ mark' = 0
  /\ args' = <<>>
  /\ sink' = s
  /\ out' = <<>>
  /\ res' = "pending"
  /\ log' = <<>>
  /\ decoded' = <<>>
  /\ UNCHANGED <<dyn, peer, synced, readable, local>>

\* encode_into(headers, writer), on the caller's writer.
EncodeInto == Call("encode_into", sink)

\* encode(headers): encode_into a fresh Vec, which accepts every write.
Encode == Call("encode", [limited |-> FALSE, room |-> 0])

\* One turn of the for loop has left the writer record w: an Err is returned
\* at once.
LoopHeaderDone(id, w) ==
  /\ Encoded(id, w, args, out, decoded)
  /\ pc' = IF w.ok THEN "loop" ELSE "idle"
  /\ res' = IF w.ok THEN res ELSE "Err"
  /\ UNCHANGED <<pre, op>>

\* Faulty variant: every field of the batch is looked up in the table as it
\* was when the call began.
LoopHeader_snapshot(id) ==
  /\ pc = "loop"
  /\ Len(args) < MaxBatch
  /\ LoopHeaderDone(id, encode_header_into(Inputs[id],
        [dyn |-> pre, out |-> out, limited |-> sink.limited, room |-> sink.room,
         ok |-> TRUE, log |-> log, k |-> Len(args) + 1]))

\* The iterator yields Inputs[id].
LoopHeader(id) ==
  /\ pc = "loop"
  /\ Len(args) < MaxBatch
  /\ LoopHeaderDone(id, encode_header_into(Inputs[id],
        [dyn |-> dyn, out |-> out, limited |-> sink.limited, room |-> sink.room,
         ok |-> TRUE, log |-> log, k |-> Len(args) + 1]))

\* The iterator is exhausted: Ok(()).
LoopEnd ==
  /\ pc = "loop"
  /\ pc' = "idle"
  /\ res' = "Ok"
  /\ UNCHANGED <<dyn, pre, before, mark, op, args, sink, out, log, peer, decoded, synced, readable, local>>

EncodeHeaderIntoDone(id, w) ==
  /\ Encoded(id, w, <<>>, <<>>, <<>>)
  /\ res' = IF w.ok THEN "Ok" ELSE "Err"
  /\ op' = "encode_header_into"
  /\ pre' = dyn
  /\ pc' = "idle"

\* encode_header_into(header, writer), called directly on the caller's writer.
EncodeHeaderInto(id) ==
  /\ pc = "idle"
  /\ EncodeHeaderIntoDone(id, encode_header_into(Inputs[id], Writer(dyn, sink.limited, sink.room)))

Next ==
  \/ \E s \in Sinks : NewWriter(s)
  \/ Encode
  \/ EncodeInto
  \/ \E id \in FieldIds : LoopHeader(id)
  \/ LoopEnd
  \/ \E id \in FieldIds : EncodeHeaderInto(id)

Spec == Init /\ [][Next]_vars

-----------------------------------------------------------------------------
(* The codecs on their own: encode_integer_into run one write at a time,   *)
(* encode_integer and encode_string_literal, on arguments drawn from the   *)
(* sets below.  They use no table; args holds the call's arguments.        *)

\* Largest of the consecutive small values 0..MaxValue.
MaxValue == 16

\* Longest of the consecutive short strings.
MaxStr == 2

Prefixes == 1..8

\* Values around every prefix's mask and around the lengths at which the
\* continuation grows by an octet.
Boundaries ==
  UNION {{m - 1, m, m + 1, m + 127, m + 128, m + 16383, m + 16384} :
         m \in {PrefixMask(p) : p \in Prefixes}}

\* 2147483647 is the largest value the model's integers hold (usize is
\* wider).
Values == (0..MaxValue) \cup Boundaries \cup {1337, 2147483647}

\* leading_bits: none, a bit inside most prefixes, the flag of the indexed
\* representation, and all bits.
Leading == {0, 16, 128, 255}

StringLens == (0..MaxStr) \cup {126, 127, 128, WideLen, 254, 255, 256}

Strings ==
  {Octets(n, c) : n \in StringLens, c \in {0, 97, 255}} \cup {<<0, 128, 255, 10>>}

\* The Vec of encode_integer and encode.
Vec == [limited |-> FALSE, room |-> 0]

\* The sinks of the codec calls: an integer takes few octets, so the ones
\* that fail do so after at most two.
CodecSinks == {s \in Sinks : s.limited => s.room <= 2}

\* A codec is about to run on args and sink.
CodecCalled(name, a, s) ==
  /\ op = name
  /\ args = a
  /\ sink = s

CodecInit ==
  /\ dyn = <<>>
  /\ pre = <<>>
  /\ before = <<>>
  /\ mark = 0
  /\ pc = "begin"
  /\ out = <<>>
  /\ res = "pending"
  /\ log = <<>>
  /\ peer = <<>>
  /\ decoded = <<>>
  /\ synced = TRUE
  /\ readable = TRUE
  /\ local = NoLocals
  /\ \/ \E v \in Values, p \in Prefixes, l \in Leading, s \in CodecSinks :
          CodecCalled("encode_integer_into", <<v, p, l>>, s)
     \/ \E v \in Values, p \in Prefixes :
          CodecCalled("encode_integer", <<v, p>>, Vec)
     \/ \E str \in Strings, s \in CodecSinks :
          CodecCalled("encode_string_literal", <<str>>, s)

\* The writer record of the state.
StateWriter ==
  [dyn |-> dyn, out |-> out, limited |-> sink.limited, room |-> sink.room,
   ok |-> TRUE, log |-> log, k |-> 1]

\* A write has left the writer record w; try! returns its Err, and `last`
\* tells that Ok(()) follows the write.
Written(w, last) ==
  /\ out' = w.out
  /\ log' = w.log
  /\ sink' = [limited |-> w.limited, room |-> w.room]
  /\ res' = IF ~w.ok THEN "Err" ELSE IF last THEN "Ok" ELSE res
  /\ pc' = IF ~w.ok \/ last THEN "done" ELSE "while"
  /\ UNCHANGED <<dyn, pre, before, mark, op, args, peer, decoded, synced, readable>>

\* encode_integer_into up to the while loop, with the mask and the cleared
\* leading bits worked out: the one-octet form, or the first octet of the
\* long form and value -= mask.
IntBegun(value, mask, lead, w) ==
  /\ Written(w, value < mask)
  /\ local' = [value |-> IF value < mask \/ ~w.ok THEN value ELSE value - mask,
               mask |-> mask, leading_bits |-> lead]

IntBeginWith(value, mask, lead) ==
  IntBegun(value, mask, lead,
           write_all(StateWriter, <<BitOr(lead, IF value < mask THEN value ELSE mask)>>))

IntegerCalled == op \in {"encode_integer_into", "encode_integer"}

\* encode_integer(value, prefix_size) passes the leading bits 0.
LeadingArg == IF op = "encode_integer" THEN 0 ELSE args[3]

\* Faulty variant: the leading bits are used as they come.
IntBegin_uncleared ==
  /\ pc = "begin"
  /\ IntegerCalled
  /\ IntBeginWith(args[1], PrefixMask(args[2]), LeadingArg)

IntBegin ==
  /\ pc = "begin"
  /\ IntegerCalled
  /\ IntBeginWith(args[1], PrefixMask(args[2]), ClearedBits(LeadingArg, PrefixMask(args[2])))

\* Faulty variant: the loop goes on only above 128.
LoopCondition_above == local.value > 128

\* while value >= 128
LoopCondition == local.value >= 128

\* The write of a turn has left w; value = value / 128 if it went well.
IntLooped(w) ==
  /\ Written(w, FALSE)
  /\ local' = IF w.ok THEN [local EXCEPT !.value = local.value \div 128] ELSE local

\* Faulty variant: the continuation bit is not set.
IntLoop_unmarked ==
  /\ pc = "while"
  /\ LoopCondition
  /\ IntLooped(write_all(StateWriter, <<local.value % 128>>))

\* One turn of the while loop.
IntLoop ==
  /\ pc = "while"
  /\ LoopCondition
  /\ IntLooped(write_all(StateWriter, <<(local.value % 128) + 128>>))

\* The write after the loop.
IntLast ==
  /\ pc = "while"
  /\ ~LoopCondition
  /\ Written(write_all(StateWriter, <<local.value>>), TRUE)
  /\ UNCHANGED local

EncodeStringLiteralDone(w) ==
  /\ out' = w.out
  /\ log' = w.log
  /\ sink' = [limited |-> w.limited, room |-> w.room]
  /\ res' = IF w.ok THEN "Ok" ELSE "Err"
  /\ pc' = "done"
  /\ UNCHANGED <<dyn, pre, before, mark, op, args, peer, decoded, synced, readable, local>>

EncodeStringLiteral ==
  /\ pc = "begin"
  /\ op = "encode_string_literal"
  /\ EncodeStringLiteralDone(encode_string_literal(args[1], StateWriter))

CodecNext ==
  \/ IntBegin
  \/ IntLoop
  \/ IntLast
  \/ EncodeStringLiteral

CodecSpec == CodecInit /\ [][CodecNext]_vars

\* A call that has begun runs on until it returns.
FairCodecSpec == CodecSpec /\ WF_vars(CodecNext)

-----------------------------------------------------------------------------
(* The lookup on its own: encode_header_into called once, into a Vec, for  *)
(* a header field and a dynamic table drawn from the sets below; args      *)
(* holds the header field.                                                 *)

\* Dynamic tables the encoder can hold: none, x: a, and x: b with the empty
\* field inserted after it.
Tables == {<<>>, <<Inputs[3]>>, <<Inputs[5], Inputs[4]>>}

StaticNames == {STATIC_TABLE[i][1] : i \in 1..Len(STATIC_TABLE)}

\* Every static entry, every static name with the value "zz", the short
\* fields of Inputs, and z: a, a name of no table.
Fields ==
  {STATIC_TABLE[i] : i \in 1..Len(STATIC_TABLE)}
    \cup {<<n, <<122, 122>>>> : n \in StaticNames}
    \cup {Inputs[3], Inputs[4], Inputs[5], <<<<122>>, <<97>>>>}

LookupInit ==
  /\ dyn \in Tables
  /\ pre = dyn
  /\ before = dyn
  /\ mark = 0
  /\ pc = "begin"
  /\ op = "encode_header_into"
  /\ args \in {<<h>> : h \in Fields}
  /\ sink = Vec
  /\ out = <<>>
  /\ res = "pending"
  /\ log = <<>>
  /\ peer = dyn
  /\ decoded = <<>>
  /\ synced = TRUE
  /\ readable = TRUE
  /\ local = NoLocals

\* encode_header_into has left the writer record w.
LookedUp(w) ==
  /\ dyn' = w.dyn
  /\ out' = w.out
  /\ log' = w.log
  /\ res' = IF w.ok THEN "Ok" ELSE "Err"
  /\ pc' = "done"
  /\ UNCHANGED <<pre, before, mark, op, args, sink, peer, decoded, synced, readable, local>>

\* encode_header_into(args[1], &mut Vec)
LookupHeader ==
  /\ pc = "begin"
  /\ LookedUp(encode_header_into(args[1], Writer(dyn, sink.limited, sink.room)))

LookupSpec == LookupInit /\ [][LookupHeader]_vars

-----------------------------------------------------------------------------
(* The wire format of RFC 7541 (spec.md 4.1, 4.2 and 6), as octet           *)
(* sequences: what the properties below compare the sink's octets with.     *)

RECURSIVE WireTail(_)
WireTail(v) == IF v < 128 THEN <<v>> ELSE <<128 + (v % 128)>> \o WireTail(v \div 128)

\* The integer v with a prefix of p bits under the flag bits `flags`.
WireInt(v, p, flags) ==
  IF v < (2 ^ p) - 1 THEN <<flags + v>>
  ELSE <<flags + (2 ^ p) - 1>> \o WireTail(v - ((2 ^ p) - 1))

WireString(s) == WireInt(Len(s), 7, 0) \o s

\* Literal header field with incremental indexing, new name.
WireNewName(h) == <<64>> \o WireString(h[1]) \o WireString(h[2])

-----------------------------------------------------------------------------
(* What the state records of the last field encoded. *)

Called == op \in {"encode", "encode_into", "encode_header_into"}

\* The last field taken was encoded in full: no write of it failed.
FieldEncoded == Called /\ args # <<>> /\ res # "Err"

\* The header fields that the positions `ids` stand for.
Headers(ids) == [i \in 1..Len(ids) |-> Inputs[ids[i]]]

LastField == Inputs[args[Len(args)]]

\* The octets the sink accepted for the last field.
Wrote == SubSeq(out, mark + 1, Len(out))

\* What find_header answered for the last field.
Lookup == find_header(before, LastField)

\* The events of the last field, in order.
LastEvents == SelectSeq(log, LAMBDA e : e[2] = Len(args))

Events(kind) == {i \in 1..Len(log) : log[i][1] = kind}

\* encode_header_into called directly, once per field of ids and each time
\* with a Vec of its own, on an encoder whose table is d: the octets of the
\* calls one after another, and the table the last call leaves.
RECURSIVE OneByOne(_, _, _)
OneByOneNext(w, rest, bytes) == OneByOne(w.dyn, rest, bytes \o w.out)

OneByOne(d, ids, bytes) ==
  IF ids = <<>> THEN [dyn |-> d, out |-> bytes]
  ELSE OneByOneNext(encode_header_into(Inputs[Head(ids)], Writer(d, FALSE, 0)),
                    Tail(ids), bytes)

-----------------------------------------------------------------------------
(* Properties. *)

\* C1: while no sink has failed, a decoder that started with an empty dynamic
\* table and reads the emitted octets in order reads them without error, has
\* reconstructed exactly the header fields of the call in their order, and
\* after every field holds the dynamic table the encoder holds.
C1_DecoderInLockStep ==
  synced => /\ readable
            /\ decoded = Headers(args)
            /\ peer = dyn

\* C1 witness: a two-field call on a non-empty table that changed the table
\* and used a table reference, with the decoder in step.
C1_Witness ==
  /\ synced /\ readable
  /\ op = "encode" /\ res = "Ok" /\ Len(args) = 2
  /\ pre # <<>> /\ dyn # pre /\ Len(dyn) < Len(pre) + 1
  /\ decoded = Headers(args) /\ peer = dyn

\* C2: a field that find_header reports as an exact match at index i is
\* written as the integer i with a 7-bit prefix under the leading bit 1 (the
\* single octet 0x80 | i when i < 127), and the dynamic table is left as it
\* was: same entries, same order, same size.
C2_ExactMatchIsIndexed ==
  (FieldEncoded /\ Lookup.some /\ Lookup.exact) =>
    /\ Wrote = WireInt(Lookup.index, 7, 128)
    /\ Lookup.index < 127 => Wrote = <<128 + Lookup.index>>
    /\ dyn = before
    /\ TableSize(dyn) = TableSize(before)

\* C2 witness: an exact match on the second entry of the dynamic table.
C2_Witness ==
  /\ FieldEncoded /\ Lookup.some /\ Lookup.exact
  /\ Lookup.index = 63
  /\ Wrote = <<191>>
  /\ dyn = before

\* C3 as stated: a field whose name is in neither table, encoded twice in a
\* row, is first written as the literal that starts with 0x40 and then as the
\* single octet 0x80 | 62.
C3_SecondIsIndexed ==
  (/\ Called /\ Len(args) = 2 /\ res # "Err"
   /\ args[1] = args[2]
   /\ ~find_header(pre, Inputs[args[1]]).some) =>
    /\ out = WireNewName(Inputs[args[1]]) \o <<128 + 62>>
    /\ out[1] = 64

\* C3 amended: the same, for a field whose entry fits the table, that is,
\* whose cost len(name) + len(value) + 32 is at most the capacity.  In any
\* call, such a field is written as the 0x40 literal and is the newest entry
\* afterwards, and a field equal to the newest entry is written as 0x80 | 62.
C3_SecondIsIndexedIfItFits ==
  /\ (/\ Called /\ Len(args) = 2 /\ res # "Err"
      /\ args[1] = args[2]
      /\ ~find_header(pre, Inputs[args[1]]).some
      /\ EntrySize(Inputs[args[1]]) <= DefaultCapacity) =>
       /\ out = WireNewName(Inputs[args[1]]) \o <<128 + 62>>
       /\ out[1] = 64
  /\ (FieldEncoded /\ ~Lookup.some /\ EntrySize(LastField) <= DefaultCapacity) =>
       /\ Wrote = WireNewName(LastField)
       /\ dyn # <<>> /\ dyn[1] = LastField
  /\ (FieldEncoded /\ before # <<>> /\ before[1] = LastField) =>
       Wrote = <<128 + 62>>

\* C3 witness: x: a encoded twice on a table that holds another entry.
C3_Witness ==
  /\ op = "encode" /\ res = "Ok"
  /\ args = <<3, 3>>
  /\ pre # <<>>
  /\ ~find_header(pre, Inputs[3]).some
  /\ out = <<64, 1, 120, 1, 97, 190>>

\* C4: when find_header reports the name in neither table, encode_header_into
\* writes the octet 0x40, the string literal of the name and the string
\* literal of the value, nothing else, and calls add_header(name, value) once,
\* after the last of these writes; if one of the writes fails, and in the two
\* other arms of the match, add_header is not called.
C4_NewNameLiteralThenAdd ==
  (Called /\ args # <<>>) =>
    LET adds == {i \in 1..Len(LastEvents) : LastEvents[i][1] = "add"}
    IN  /\ (~Lookup.some /\ res # "Err") =>
              /\ Wrote = <<64>> \o WireString(LastField[1]) \o WireString(LastField[2])
              /\ adds = {Len(LastEvents)}
              /\ \A i \in 2..(Len(LastEvents) - 1) : LastEvents[i][1] = "write"
              /\ LastEvents[1][1] = "find"
              /\ dyn = add_header(before, LastField[1], LastField[2])
        /\ (Lookup.some \/ res = "Err") => (adds = {} /\ dyn = before)

\* C4 witness: a new name added in front of an entry, after its writes.
C4_Witness ==
  /\ FieldEncoded /\ ~Lookup.some
  /\ before # <<>>
  /\ dyn = <<LastField>> \o before
  /\ LastEvents[Len(LastEvents)][1] = "add"
  /\ Len(LastEvents) > 2

\* C5: a field that find_header reports as a name-only match at index i is
\* written as the integer i with a 4-bit prefix under the leading bits 0000
\* followed by the string literal of the value, and the dynamic table is left
\* as it was; so fields that share a known name and change their values are
\* each sent as a literal and never grow or reorder the table.
C5_NameMatchIsLiteralNotAdded ==
  (FieldEncoded /\ Lookup.some /\ ~Lookup.exact) =>
    /\ Wrote = WireInt(Lookup.index, 4, 0) \o WireString(LastField[2])
    /\ Wrote[1] < 16
    /\ dyn = before

\* C5 witness: x: b while x: a is the newest entry, index 62, in a table of
\* two entries.
C5_Witness ==
  /\ FieldEncoded /\ Lookup.some /\ ~Lookup.exact
  /\ Lookup.index = 62
  /\ Len(before) = 2
  /\ Wrote = <<15, 47, 1, 98>>
  /\ dyn = before

\* C6: the costs len(name) + len(value) + 32 of the entries of the dynamic
\* table never add up to more than the capacity.
C6_TableWithinCapacity == TableSize(dyn) <= DefaultCapacity

\* C6 witness: a new entry that did not fit beside the old ones was added,
\* and an old entry stayed.
C6_Witness ==
  /\ FieldEncoded /\ ~Lookup.some
  /\ TableSize(before) + EntrySize(LastField) > DefaultCapacity
  /\ Len(dyn) = 2
  /\ dyn[1] = LastField

\* C7: encoding a new-name field whose cost exceeds the capacity fails only
\* if the sink does; it writes the whole 0x40 literal and leaves the dynamic
\* table empty, the field not stored, whatever the table held before.
C7_OversizedIsSentAndDropped ==
  (/\ Called /\ args # <<>>
   /\ ~Lookup.some
   /\ EntrySize(LastField) > DefaultCapacity) =>
    /\ res = "Err" => (sink.limited /\ Events("fail") # {})
    /\ res # "Err" => /\ Wrote = WireNewName(LastField)
                       /\ dyn = <<>>

\* C7 witness: an oversized field encoded while the table held two entries.
C7_Witness ==
  /\ FieldEncoded /\ ~Lookup.some
  /\ EntrySize(LastField) > DefaultCapacity
  /\ Len(before) = 2
  /\ res = "Ok"
  /\ dyn = <<>>

\* C8: the dynamic table never holds two entries with the same name, and
\* never an entry whose name is in the static table.
C8_NamesUnique ==
  /\ \A i, j \in 1..Len(dyn) : dyn[i][1] = dyn[j][1] => i = j
  /\ \A i \in 1..Len(dyn), j \in 1..Len(STATIC_TABLE) : dyn[i][1] # STATIC_TABLE[j][1]

\* C8 witness: a table of two entries after fields with the name of one of
\* them, and with a static name, were encoded with other values.
C8_Witness ==
  /\ Called /\ Len(args) = 2 /\ res = "Ok"
  /\ Len(dyn) = 2
  /\ \A k \in 1..2 : LET f == find_header(dyn, Inputs[args[k]])
                       IN  f.some /\ ~f.exact
  /\ find_header(dyn, Inputs[args[1]]).index < 62
  /\ find_header(dyn, Inputs[args[2]]).index >= 62

C10_ErrStopsTheCall ==
  /\ (res = "Err") = (Events("fail") # {})
  /\ Events("fail") # {} =>
        /\ Events("fail") = {Len(log)}
        /\ log[Len(log)][2] = Len(args)
        /\ pc = "idle"

\* C10 witness: the sink failed in the second field of a batch, after it
\* had taken the field's first octet and the first field had been added to the
\* table.
C10_Witness ==
  /\ op = "encode_into" /\ res = "Err"
  /\ Len(args) = 2
  /\ Events("add") # {}
  /\ Len(out) > mark
  /\ log[Len(log)] = <<"fail", 2>>

\* C11: for every prefix width in 1..8 and every value, reading the octets
\* that encode_integer_into (or encode_integer) wrote, with the same prefix
\* width, gives the value back and uses up exactly those octets; (10, 5)
\* gives [10] and (1337, 5) gives [31, 154, 10].
C11_IntegerRoundTrip ==
  (IntegerCalled /\ pc = "done" /\ res = "Ok") =>
    /\ DecodeInt(out, 1, args[2]) = [ok |-> TRUE, value |-> args[1], next |-> Len(out) + 1]
    /\ (args[1] = 10 /\ args[2] = 5 /\ LeadingArg = 0) => out = <<10>>
    /\ (args[1] = 1337 /\ args[2] = 5 /\ LeadingArg = 0) => out = <<31, 154, 10>>

\* C11 witness: 1337 written with a 5-bit prefix under the flag 0x80, in
\* three octets that read back as 1337.
C11_Witness ==
  /\ op = "encode_integer_into" /\ pc = "done" /\ res = "Ok"
  /\ args = <<1337, 5, 128>>
  /\ out = <<159, 154, 10>>
  /\ DecodeInt(out, 1, 5).value = 1337

\* C12: the first octet encode_integer_into writes has, above the prefix of
\* p bits, the bits of leading_bits, and in the prefix min(value, 2^p - 1);
\* no bit of leading_bits inside the prefix reaches it: (10, 5, 0x10) gives
\* [0x0A] and (10, 5, 0x80) gives [0x8A].
C12_FirstOctet ==
  (IntegerCalled /\ out # <<>>) =>
    /\ out[1] \div (2 ^ args[2]) = LeadingArg \div (2 ^ args[2])
    /\ out[1] % (2 ^ args[2]) = Min({args[1], (2 ^ args[2]) - 1})
    /\ (args[1] = 10 /\ args[2] = 5 /\ LeadingArg = 16) => out = <<10>>
    /\ (args[1] = 10 /\ args[2] = 5 /\ LeadingArg = 128) => out = <<138>>

\* C12 witness: leading bits 0xFF around a 3-bit prefix holding 2: the five
\* high bits stay, the three low bits of leading_bits are replaced by 010.
C12_Witness ==
  /\ op = "encode_integer_into" /\ pc = "done" /\ res = "Ok"
  /\ args = <<2, 3, 255>>
  /\ out = <<250>>

\* C13: what encode returns and what encode_into has written to its sink,
\* whatever the sink, are the octets that direct calls of encode_header_into,
\* one per field in order, write from the same table, and the table left is
\* the same; so a batch of two fields gives the octets and the table of a call
\* with the first field followed by a call with the second.
C13_BatchIsFieldByField ==
  (Called /\ res # "Err") =>
    /\ [dyn |-> dyn, out |-> out] = OneByOne(pre, args, <<>>)
    /\ Len(args) = 2 =>
         /\ out = OneByOne(pre, <<args[1]>>, <<>>).out
                    \o OneByOne(before, <<args[2]>>, <<>>).out
         /\ before = OneByOne(pre, <<args[1]>>, <<>>).dyn
         /\ dyn = OneByOne(before, <<args[2]>>, <<>>).dyn

\* C13 witness: encode_into on a sink of limited room has returned Ok for two
\* fields, of which the first changed a table that was not empty and the
\* second was found in the table the first left.
C13_Witness ==
  /\ op = "encode_into" /\ pc = "idle" /\ res = "Ok"
  /\ sink.limited
  /\ Len(args) = 2
  /\ pre # <<>> /\ before # pre
  /\ Lookup.some /\ Lookup.index = 62
  /\ ~find_header(pre, LastField).some

\* C14: when a write to the sink fails while field k of a call is encoded,
\* the dynamic table afterwards is the table that encoding the fields before
\* k in full leaves: what they added is kept, and field k has added nothing,
\* at whichever of its writes the sink failed.
C14_NoRollbackNoPartialAdd ==
  (Called /\ res = "Err") =>
    /\ dyn = before
    /\ dyn = OneByOne(pre, SubSeq(args, 1, Len(args) - 1), <<>>).dyn
    /\ \A i \in Events("add") : log[i][2] < Len(args)
    /\ \A k \in 1..(Len(args) - 1) :
         ~find_header(OneByOne(pre, SubSeq(args, 1, k - 1), <<>>).dyn, Inputs[args[k]]).some
           <=> <<"add", k>> \in {log[i] : i \in 1..Len(log)}

\* C14 witness: the first field of a batch was added to a table that held
\* an entry, then the sink failed after the first octet of the second field,
\* a new name: the first field's entry is there, the second field's is not.
C14_Witness ==
  /\ op = "encode_into" /\ res = "Err"
  /\ Len(args) = 2
  /\ pre # <<>>
  /\ Events("add") # {}
  /\ ~Lookup.some
  /\ dyn = <<Inputs[args[1]]>> \o pre
  /\ mark = 3 /\ out = <<64, 0, 0, 64>>

\* C15: the table changes only by an insertion, and an insertion leaves the
\* new entry in front of the newest entries of the table before it, in their
\* order: as many of them as fit the capacity beside the new entry, no fewer,
\* or none at all, not even the new entry, when the new entry alone exceeds
\* the capacity.  So the table is always a run of the latest stored
\* insertions, newest first, and an entry outlives none that was inserted
\* after it.
C15_EvictsOldestFirst ==
  (Called /\ args # <<>>) =>
    IF ~Lookup.some /\ res # "Err"
      THEN \/ \E k \in 0..Len(before) :
                /\ dyn = <<LastField>> \o SubSeq(before, 1, k)
                /\ TableSize(dyn) <= DefaultCapacity
                /\ k < Len(before) =>
                     TableSize(<<LastField>> \o SubSeq(before, 1, k + 1)) > DefaultCapacity
           \/ /\ EntrySize(LastField) > DefaultCapacity
              /\ dyn = <<>>
      ELSE dyn = before

\* C15 witness: an insertion into a table of two entries evicted the older
\* one and kept the newer one behind the new entry.
C15_Witness ==
  /\ FieldEncoded /\ ~Lookup.some
  /\ Len(before) = 2
  /\ dyn = <<LastField, before[1]>>
  /\ TableSize(<<LastField>> \o before) > DefaultCapacity

\* C16: the first octet written for a header field tells its representation:
\* 0x81..0xFF for an exact match, 0x40 for a new name, 0x01..0x0F for a
\* name-only match; never 0x00, 0x80, 0x10..0x3F or 0x41..0x7F.
C16_FirstOctetOfField ==
  (Called /\ args # <<>> /\ Len(out) > mark) =>
    /\ (Lookup.some /\ Lookup.exact) => Wrote[1] \in 129..255
    /\ ~Lookup.some => Wrote[1] = 64
    /\ (Lookup.some /\ ~Lookup.exact) => Wrote[1] \in 1..15
    /\ Wrote[1] \notin {0, 128} \cup (16..63) \cup (65..127)

\* C16 witness: a name-only match at an index that fills the 4-bit prefix,
\* so that the first octet is the largest of its range, 0x0F.
C16_Witness ==
  /\ FieldEncoded
  /\ Lookup.some /\ ~Lookup.exact /\ Lookup.index = 63
  /\ Wrote[1] = 15

\* C17: encode_string_literal writes the length of the string as an integer
\* with a 7-bit prefix under leading bits 0, then the octets of the string as
\* they are; the first octet has its top bit clear; an empty string is
\* accepted and written as the single octet 0x00.  A sink that fails has
\* taken a beginning of these octets.
C17_StringLiteral ==
  (op = "encode_string_literal" /\ pc = "done") =>
    /\ res = "Ok" =>
         /\ out = WireInt(Len(args[1]), 7, 0) \o args[1]
         /\ out[1] < 128
         /\ DecodeString(out, 1) = [ok |-> TRUE, str |-> args[1], next |-> Len(out) + 1]
         /\ args[1] = <<>> => out = <<0>>
    /\ res = "Err" =>
         /\ sink.limited
         /\ out = SubSeq(WireInt(Len(args[1]), 7, 0) \o args[1], 1, Len(out))
    /\ ~sink.limited => res = "Ok"

\* C17 witness: a string of octets 0xFF whose length does not fit the 7-bit
\* prefix: the first octet is 0x7F, the length goes on in a second octet,
\* and the octets follow unchanged.
C17_Witness ==
  /\ op = "encode_string_literal" /\ pc = "done" /\ res = "Ok"
  /\ Len(args[1]) = WideLen
  /\ args[1][1] = 255
  /\ out = <<127, WideLen - 127>> \o args[1]

\* C18: encode_integer_into returns for every value and prefix width 1..8.
\* When value < 2^p - 1 it writes one octet.  Otherwise it writes a first
\* octet whose prefix bits are all ones, then octets with the top bit set
\* while the remainder is at least 128, and last one octet with the top bit
\* clear.  The remainder is never negative, and every turn of the loop makes
\* it smaller.
C18_IntegerTerminates ==
  /\ <>(pc = "done")
  /\ [](IntegerCalled =>
          /\ local.value >= 0
          /\ (pc = "done" /\ res = "Ok" /\ args[1] < (2 ^ args[2]) - 1) => Len(out) = 1
          /\ (pc = "done" /\ res = "Ok" /\ args[1] >= (2 ^ args[2]) - 1) =>
                /\ Len(out) >= 2
                /\ out[1] % (2 ^ args[2]) = (2 ^ args[2]) - 1
                /\ \A i \in 2..(Len(out) - 1) : out[i] >= 128
                /\ out[Len(out)] < 128
          /\ pc = "while" =>
                /\ args[1] >= (2 ^ args[2]) - 1
                /\ \A i \in 2..Len(out) : out[i] >= 128)
  /\ [][(pc = "while" /\ pc' = "while") =>
          /\ local.value >= 128
          /\ local.value' < local.value
          /\ Len(out') = Len(out) + 1]_vars

\* C18 witness: the largest value, with an 8-bit prefix, has returned after
\* four turns of the loop: six octets, the last one below 0x80.
C18_Witness ==
  /\ op = "encode_integer_into" /\ pc = "done" /\ res = "Ok"
  /\ args[1] = 2147483647 /\ args[2] = 8
  /\ Len(out) = 6
  /\ out[1] % 256 = 255
  /\ out[6] < 128

\* C19: what encode_header_into writes shows what find_header answered.
\* When some entry of the static or dynamic table equals the field, the
\* answer is an exact match, at the lowest such index, even when an entry
\* with the same name and another value has a lower index: (:method, POST)
\* on a fresh encoder is index 3, exact, not index 2 by name.  When no entry
\* equals the field and some entry has its name, the answer is a name-only
\* match at the lowest index with the name.  The answer is absent only when
\* no entry has the name.
C19_FindHeader ==
  (op = "encode_header_into" /\ pc = "done") =>
    LET t == CombinedTable(before)
        equal == {i \in 1..Len(t) : t[i] = args[1]}
        named == {i \in 1..Len(t) : t[i][1] = args[1][1]}
    IN  /\ res = "Ok"
        /\ equal # {} =>
              /\ out[1] >= 128
              /\ DecodeInt(out, 1, 7).value \in equal
              /\ \A i \in equal : DecodeInt(out, 1, 7).value <= i
              /\ Len(out) = 1
        /\ (equal = {} /\ named # {}) =>
              /\ out[1] < 16
              /\ DecodeInt(out, 1, 4).value \in named
              /\ \A i \in named : DecodeInt(out, 1, 4).value <= i
        /\ named = {} <=> out[1] = 64
        /\ (before = <<>> /\ args[1] = STATIC_TABLE[3]) => out = <<131>>

\* C19 witness: (:status, 404), equal to static entry 13, whose name is at
\* the lower indices 8 to 12 with other values, looked up while the dynamic
\* table holds two entries: written as the index 13.
C19_Witness ==
  /\ op = "encode_header_into" /\ pc = "done"
  /\ Len(before) = 2
  /\ args[1] = STATIC_TABLE[13]
  /\ \A i \in 8..12 : STATIC_TABLE[i][1] = args[1][1]
  /\ out = <<128 + 13>>

====
